---- MODULE Spec2Model ----
(***************************************************************************)
(* Model of the LOINC ingestion script process_loinc.py: main() builds the *)
(* part lookup, recreates the Qdrant collection, then reads                *)
(* LoincTableCore.csv row by row, embeds a descriptive text per row and    *)
(* upserts the points in batches of 100.  The Ollama embedding service and *)
(* the Qdrant store are the environment: every call to them may return or  *)
(* raise.  An exception main() does not catch ends the process with a      *)
(* traceback and exit code 1.                                              *)
(***************************************************************************)
EXTENDS Integers, Sequences, FiniteSets, TLC

VARIABLES
    partFile,     \* rows of Part.csv (PartNumber, PartName), fixed input
    header,       \* column names in the header of LoincTableCore.csv, fixed input
    nRows,        \* number of data rows of LoincTableCore.csv, fixed input
    collection,   \* the Qdrant collection "loinc": exists, size, pts (id -> point)
    svcDim,       \* length of the vectors the embedding service currently returns
    run,          \* which execution of the script this is (1, 2, ...)
    pc,           \* position of main(): start, setup, open, loop, upsert, flush, exited
    part_lookup,  \* main's part_lookup dict
    csvOpen,      \* TRUE once LoincTableCore.csv has been opened
    rowsRead,     \* rows pulled from the csv reader so far in this run
    points,       \* main's points list (the open batch)
    embedCalls,   \* calls of get_embedding made in this run
    upsertLog,    \* upsert requests sent in this run: ids, wait flag, points committed, ok
    out,          \* what this run printed (stdout and the traceback)
    err,          \* exception raised in this run ("none" when none)
    exitCode,     \* process exit code, -1 while the process runs
    completedRuns, \* executions so far in which main() ran to its last line
    resumeOffset  \* source positions the operator of a restart holds to be committed

vars == <<partFile, header, nRows, collection, svcDim, run, pc, part_lookup,
          csvOpen, rowsRead, points, embedCalls, upsertLog, out, err, exitCode,
          completedRuns, resumeOffset>>

----------------------------------------------------------------------------
(* Program constants and bounds *)

BatchSize == 100
VectorSize == 768
OtherDim == 384

MaxRows == 201
MaxRuns == 2

RowCounts == {0, 1, BatchSize - 1, BatchSize, BatchSize + 1, MaxRows}

Columns == {"LOINC_NUM", "LONG_COMMON_NAME", "COMPONENT", "PROPERTY", "TIME_ASPCT",
            "SYSTEM", "SCALE_TYP", "METHOD_TYP", "CLASS"}

XrefFields == {"PROPERTY", "TIME_ASPCT", "SYSTEM", "SCALE_TYP", "METHOD_TYP"}

\* payload key of each cross-reference column
PayloadKey(f) ==
    CASE f = "PROPERTY" -> "Property"
      [] f = "TIME_ASPCT" -> "Time"
      [] f = "SYSTEM" -> "System"
      [] f = "SCALE_TYP" -> "Scale"
      [] f = "METHOD_TYP" -> "Method"

Codes == <<"LP1", "LP2", "Pt">>

PartRow(n, name) == [PartNumber |-> n, PartName |-> name]

\* the Part.csv files considered: no entry, one entry, and one with a repeated
\* PartNumber; the code "Pt" is in none
PartFiles ==
    { << >>,
      << PartRow("LP1", "Mass") >>,
      << PartRow("LP1", "Mass"), PartRow("LP2", "Point in time"), PartRow("LP1", "Mass concentration") >> }

\* the k-th data row of LoincTableCore.csv (k from 1)
Row(k) ==
    [ LOINC_NUM        |-> <<"num", k>>,
      LONG_COMMON_NAME |-> <<"name", k>>,
      COMPONENT        |-> <<"comp", k % 2>>,
      PROPERTY         |-> Codes[(k % 3) + 1],
      TIME_ASPCT       |-> Codes[((k + 1) % 3) + 1],
      SYSTEM           |-> Codes[((k + 2) % 3) + 1],
      SCALE_TYP        |-> Codes[((k \div 3) % 3) + 1],
      METHOD_TYP       |-> Codes[3],
      CLASS            |-> <<"class", k % 2>> ]

----------------------------------------------------------------------------
(* create_part_lookup and dict.get *)

DictSet(d, key, val) == [x \in (DOMAIN d) \cup {key} |-> IF x = key THEN val ELSE d[x]]

RECURSIVE BuildLookup(_, _, _)
BuildLookup(rows, k, acc) ==
    IF k > Len(rows) THEN acc
    ELSE BuildLookup(rows, k + 1, DictSet(acc, rows[k].PartNumber, rows[k].PartName))

create_part_lookup(rows) == BuildLookup(rows, 1, << >>)

\* a lookup that drops the default: a missing key yields None
PartLookupGetNoDefault(d, key, default) == IF key \in DOMAIN d THEN d[key] ELSE "None"

\* part_lookup.get(key, default)
PartLookupGet(d, key, default) == IF key \in DOMAIN d THEN d[key] ELSE default

Resolve(d, row, f) == PartLookupGet(d, row[f], row[f])

\* the f-string of line 63, as the tuple of the values it interpolates
TextToEmbed(d, row) ==
    << row.LONG_COMMON_NAME, row.COMPONENT, Resolve(d, row, "PROPERTY"),
       Resolve(d, row, "TIME_ASPCT"), Resolve(d, row, "SYSTEM"),
       Resolve(d, row, "SCALE_TYP"), Resolve(d, row, "METHOD_TYP"), row.CLASS >>

Payload(d, row) ==
    [ Name      |-> row.LONG_COMMON_NAME,
      Loinc     |-> row.LOINC_NUM,
      Component |-> row.COMPONENT,
      Property  |-> Resolve(d, row, "PROPERTY"),
      Time      |-> Resolve(d, row, "TIME_ASPCT"),
      System    |-> Resolve(d, row, "SYSTEM"),
      Scale     |-> Resolve(d, row, "SCALE_TYP"),
      Method    |-> Resolve(d, row, "METHOD_TYP") ]

\* the vector the service returns for a text: its content is identified by the text
\* and the run that requested it, its length is the service's current dimension
Embedding(text, r, dim) == [text |-> text, run |-> r, dim |-> dim]

\* identifier given to the row with 0-based index i
PointIdOffByOne(i) == i

\* an identifier counted within the batch instead of over the table
PointIdWithinBatch(i) == (i % BatchSize) + 1

PointId(i) == i + 1

PointStruct(id, vector, payload) == [id |-> id, vector |-> vector, payload |-> payload]

\* columns main reads from a row before / after the call of get_embedding
PreEmbedCols == {"COMPONENT", "PROPERTY", "TIME_ASPCT", "SYSTEM", "SCALE_TYP",
                 "METHOD_TYP", "LONG_COMMON_NAME", "CLASS"}

PostEmbedCols == {"LOINC_NUM"}

----------------------------------------------------------------------------
(* The store *)

NoCollection == [exists |-> FALSE, size |-> 0, pts |-> << >>]

EmptyCollection(size) == [exists |-> TRUE, size |-> size, pts |-> << >>]

\* a point left by an earlier load of another table
OldPoint ==
    PointStruct(900, Embedding(<<"old">>, 0, VectorSize),
                [Name |-> <<"old">>, Loinc |-> <<"old">>, Component |-> <<"old">>,
                 Property |-> "old", Time |-> "old", System |-> "old",
                 Scale |-> "old", Method |-> "old"])

\* what the store may hold before the first run
PreExisting ==
    { NoCollection,
      [exists |-> TRUE, size |-> VectorSize, pts |-> (900 :> OldPoint)],
      [exists |-> TRUE, size |-> OtherDim, pts |-> (900 :> [OldPoint EXCEPT !.vector.dim = OtherDim])] }

Ids(ps) == {ps[k].id : k \in 1..Len(ps)}

\* upsert of the first n points of ps: insert or replace by identifier, later wins
StoreUpsert(coll, ps, n) ==
    LET new == {ps[k].id : k \in 1..n}
        last(id) == CHOOSE k \in 1..n : ps[k].id = id /\ \A j \in (k + 1)..n : ps[j].id # id
    IN [coll EXCEPT !.pts = [id \in (DOMAIN coll.pts) \cup new |->
                                IF id \in new THEN ps[last(id)] ELSE coll.pts[id]]]

BadDim(coll, ps) == {k \in 1..Len(ps) : ps[k].vector.dim # coll.size}

\* how many points of the batch a failing upsert may have committed: the store
\* rejects a vector of the wrong length; any call may fail before, during or after
\* the write (a timeout while waiting for the acknowledgement)
FailCommitted(coll, ps) ==
    IF BadDim(coll, ps) # {}
    THEN {0}
    ELSE {0, Len(ps) \div 2, Len(ps)}

Msg(kind, n) == [kind |-> kind, n |-> n, ids |-> {}]

----------------------------------------------------------------------------
(* Initial state: the inputs and the store before the script is started *)

Init ==
    /\ partFile \in PartFiles
    /\ header \in {Columns} \cup {Columns \ {c} : c \in Columns}
    /\ nRows \in RowCounts
    /\ collection \in PreExisting
    /\ svcDim \in {VectorSize, OtherDim}
    /\ run = 1
    /\ pc = "start"
    /\ part_lookup = << >>
    /\ csvOpen = FALSE
    /\ rowsRead = 0
    /\ points = << >>
    /\ embedCalls = 0
    /\ upsertLog = << >>
    /\ out = << >>
    /\ err = "none"
    /\ exitCode = -1
    /\ completedRuns = 0
    /\ resumeOffset = 0

inputs == <<partFile, header, nRows>>

\* an exception nothing catches: the interpreter prints the traceback and exits 1
Uncaught(e) ==
    /\ pc' = "exited"
    /\ err' = e
    /\ exitCode' = 1
    /\ out' = Append(out, Msg("traceback", 0))
    /\ UNCHANGED completedRuns

\* main() returns and the interpreter exits 0
Return(printed) ==
    /\ pc' = "exited"
    /\ exitCode' = 0
    /\ out' = printed

----------------------------------------------------------------------------
(* main() *)

\* line 35: part_lookup = create_part_lookup()
CreatePartLookup ==
    /\ pc = "start"
    /\ part_lookup' = create_part_lookup(partFile)
    /\ pc' = "setup"
    /\ UNCHANGED <<inputs, collection, svcDim, run, csvOpen, rowsRead, points,
                   embedCalls, upsertLog, out, err, exitCode, completedRuns, resumeOffset>>

\* the collection after a successful recreate_collection that keeps what it finds
RecreatedKeeping(coll, size) == IF coll.exists THEN coll ELSE EmptyCollection(size)

\* recreate_collection: delete the collection if it exists, then create it empty
Recreated(coll, size) == EmptyCollection(size)

\* lines 38-43: recreate_collection succeeds
RecreateCollectionOk ==
    /\ pc = "setup"
    /\ collection' = Recreated(collection, VectorSize)
    /\ out' = Append(out, Msg("created", 0))
    /\ pc' = "open"
    /\ UNCHANGED <<inputs, svcDim, run, part_lookup, csvOpen, rowsRead, points,
                   embedCalls, upsertLog, err, exitCode, completedRuns, resumeOffset>>

\* the except clause, were it to print and let main go on to the table
AfterExceptFallsThrough(printed) ==
    /\ pc' = "open"
    /\ out' = printed
    /\ UNCHANGED exitCode

\* lines 45-47: the except clause prints the error and returns from main
AfterExcept(printed) == Return(printed)

\* lines 44-47: recreate_collection raises (before the delete, or between the
\* delete and the create); main prints the error and returns
RecreateCollectionFails ==
    /\ pc = "setup"
    /\ \/ UNCHANGED collection
       \/ /\ collection.exists
          /\ collection' = NoCollection
    /\ err' = "CollectionError"
    /\ AfterExcept(Append(out, Msg("could_not_create", 0)))
    /\ UNCHANGED completedRuns
    /\ UNCHANGED <<inputs, svcDim, run, part_lookup, csvOpen, rowsRead, points,
                   embedCalls, upsertLog, resumeOffset>>

\* lines 50-52: open the table, read its header, points = []
OpenCsv ==
    /\ pc = "open"
    /\ csvOpen' = TRUE
    /\ points' = << >>
    /\ pc' = "loop"
    /\ UNCHANGED <<inputs, collection, svcDim, run, part_lookup, rowsRead,
                   embedCalls, upsertLog, out, err, exitCode, completedRuns, resumeOffset>>

\* lines 53-85: one row is read and turned into a point
LoopRow ==
    /\ pc = "loop"
    /\ rowsRead < nRows
    /\ rowsRead' = rowsRead + 1
    /\ LET i == rowsRead
           row == Row(rowsRead + 1)
       IN \/ \* lines 55-63: a column of the f-string is not in the header
             /\ PreEmbedCols \ header # {}
             /\ Uncaught("KeyError")
             /\ UNCHANGED <<points, embedCalls>>
          \/ \* line 66: get_embedding raises
             /\ PreEmbedCols \subseteq header
             /\ embedCalls' = embedCalls + 1
             /\ Uncaught("EmbedError")
             /\ UNCHANGED points
          \/ \* line 71: LOINC_NUM is not in the header
             /\ PreEmbedCols \subseteq header
             /\ PostEmbedCols \ header # {}
             /\ embedCalls' = embedCalls + 1
             /\ Uncaught("KeyError")
             /\ UNCHANGED points
          \/ \* lines 66-85: the point is appended
             /\ Columns \subseteq header
             /\ embedCalls' = embedCalls + 1
             /\ points' = Append(points,
                                 PointStruct(PointId(i),
                                             Embedding(TextToEmbed(part_lookup, row), run, svcDim),
                                             Payload(part_lookup, row)))
             /\ pc' = IF Len(points') = BatchSize THEN "upsert" ELSE "loop"
             /\ UNCHANGED <<out, err, exitCode, completedRuns>>
    /\ UNCHANGED <<inputs, collection, svcDim, run, part_lookup, csvOpen, upsertLog,
                   resumeOffset>>

LogEntry(ps, n, ok) == [ids |-> Ids(ps), wait |-> TRUE, committed |-> n, ok |-> ok]

\* an upsert call that returns: every point of the batch is stored
UpsertReturns(ps) ==
    /\ BadDim(collection, ps) = {}
    /\ collection' = StoreUpsert(collection, ps, Len(ps))
    /\ upsertLog' = Append(upsertLog, LogEntry(ps, Len(ps), TRUE))

\* an upsert call that raises, the store having kept the first n points
UpsertRaises(ps) ==
    /\ \E n \in FailCommitted(collection, ps) :
          /\ collection' = StoreUpsert(collection, ps, n)
          /\ upsertLog' = Append(upsertLog, LogEntry(ps, n, FALSE))
    /\ Uncaught("UpsertError")

\* the open batch after the upsert inside the loop, were it not reset
PointsKept(ps) == ps

\* line 94: points = []
PointsAfterUpsert(ps) == << >>

\* lines 88-95: the batch holds 100 points and is upserted
LoopUpsert ==
    /\ pc = "upsert"
    /\ \/ /\ UpsertReturns(points)
          /\ points' = PointsAfterUpsert(points)
          /\ out' = Append(out, Msg("upserted", BatchSize))
          /\ pc' = "loop"
          /\ UNCHANGED <<err, exitCode, completedRuns>>
       \/ /\ UpsertRaises(points)
          /\ UNCHANGED points
    /\ UNCHANGED <<inputs, svcDim, run, part_lookup, csvOpen, rowsRead, embedCalls,
                   resumeOffset>>

\* the test after the loop, were the final upsert made unconditionally
AlwaysFlush(ps) == TRUE

\* line 98: if points
HasRemaining(ps) == ps # << >>

\* line 53 / 98: the reader is exhausted
LoopEnds ==
    /\ pc = "loop"
    /\ rowsRead = nRows
    /\ \/ /\ HasRemaining(points)
          /\ pc' = "flush"
          /\ UNCHANGED <<out, exitCode, completedRuns>>
       \/ /\ ~HasRemaining(points)
          /\ Return(out)
          /\ completedRuns' = completedRuns + 1
    /\ UNCHANGED <<inputs, collection, svcDim, run, part_lookup, csvOpen, rowsRead,
                   points, embedCalls, upsertLog, err, resumeOffset>>

\* lines 98-104: the remaining points are upserted and main returns
FinalUpsert ==
    /\ pc = "flush"
    /\ \/ /\ UpsertReturns(points)
          /\ Return(Append(out, Msg("upserted_remaining", Len(points))))
          /\ completedRuns' = completedRuns + 1
          /\ UNCHANGED err
       \/ UpsertRaises(points)
    /\ UNCHANGED <<inputs, svcDim, run, part_lookup, csvOpen, rowsRead, points, embedCalls,
                   resumeOffset>>

----------------------------------------------------------------------------
(* Environment *)

\* the model served under OLLAMA_MODEL is replaced by one of another dimension
\* while the script runs; the replacement is considered at the first and at the
\* last point of a batch
ServiceModelChange ==
    /\ pc = "loop"
    /\ Len(points) \in {0, BatchSize - 1}
    /\ svcDim = VectorSize
    /\ svcDim' = OtherDim
    /\ UNCHANGED <<inputs, collection, run, pc, part_lookup, csvOpen, rowsRead, points,
                   embedCalls, upsertLog, out, err, exitCode, completedRuns, resumeOffset>>

\* the run is cancelled (SIGINT) while main() is in the ingestion loop, between two
\* calls of the store: main() installs no handler and catches nothing, so the
\* KeyboardInterrupt ends the process with a traceback and the signal's exit status
Interrupt ==
    /\ pc \in {"loop", "upsert", "flush"}
    /\ pc' = "exited"
    /\ err' = "KeyboardInterrupt"
    /\ exitCode' = 130
    /\ out' = Append(out, Msg("traceback", 0))
    /\ UNCHANGED <<inputs, collection, svcDim, run, part_lookup, csvOpen, rowsRead, points,
                   embedCalls, upsertLog, completedRuns, resumeOffset>>

\* a new process: nothing of the previous one but the files and the store is left
NewProcess ==
    /\ pc = "exited"
    /\ run < MaxRuns
    /\ run' = run + 1
    /\ svcDim' \in {VectorSize, OtherDim}
    /\ pc' = "start"
    /\ part_lookup' = << >>
    /\ csvOpen' = FALSE
    /\ rowsRead' = 0
    /\ points' = << >>
    /\ embedCalls' = 0
    /\ upsertLog' = << >>
    /\ out' = << >>
    /\ err' = "none"
    /\ exitCode' = -1
    /\ UNCHANGED <<inputs, collection, completedRuns>>

\* the number of source positions whose points the store holds
CommittedPositions == Cardinality({k \in 1..nRows : k \in DOMAIN collection.pts})

\* the script is started again over the same files
StartRun ==
    /\ NewProcess
    /\ resumeOffset' = 0

\* the script is started again to resume after the positions already committed;
\* main() takes no argument, so the offset stays with the operator
Resume ==
    /\ NewProcess
    /\ err # "none"
    /\ resumeOffset' = CommittedPositions

Next ==
    \/ CreatePartLookup
    \/ RecreateCollectionOk
    \/ RecreateCollectionFails
    \/ OpenCsv
    \/ LoopRow
    \/ LoopUpsert
    \/ LoopEnds
    \/ FinalUpsert
    \/ ServiceModelChange
    \/ Interrupt
    \/ StartRun

Spec == Init /\ [][Next]_vars

NextResume ==
    \/ CreatePartLookup
    \/ RecreateCollectionOk
    \/ RecreateCollectionFails
    \/ OpenCsv
    \/ LoopRow
    \/ LoopUpsert
    \/ LoopEnds
    \/ FinalUpsert
    \/ ServiceModelChange
    \/ Interrupt
    \/ Resume

\* the executions in which every restart is meant as a resumption
SpecResume == Init /\ [][NextResume]_vars

----------------------------------------------------------------------------
(* Properties *)

Pts == collection.pts

\* main() ran to its last line in the current execution
Completed == pc = "exited" /\ err = "none"

\* identifiers a message of the run names as failed: the prints of main() and the
\* traceback carry counts and the exception text only
Reported == UNION {out[j].ids : j \in 1..Len(out)}

HasPartRow(code) == \E j \in 1..Len(partFile) : partFile[j].PartNumber = code

\* the name in the last row of Part.csv that carries the code
LastPartName(code) ==
    partFile[CHOOSE j \in 1..Len(partFile) :
                /\ partFile[j].PartNumber = code
                /\ \A j2 \in (j + 1)..Len(partFile) : partFile[j2].PartNumber # code].PartName

ResolvedAsClaimed(p) ==
    \A f \in XrefFields :
        LET code == Row(p.id)[f]
            v == p.payload[PayloadKey(f)]
        IN IF HasPartRow(code) THEN v = LastPartName(code) ELSE v = code

\* C1: for every row and every cross-reference field, a code without a row in
\* Part.csv is put into the payload as the raw code, a code with a row is replaced
\* by its PartName; with every column present no KeyError is raised.  Checked on
\* each point when it is appended and on the whole store when a run has completed.
C1_MissingCodeIsPassedThrough ==
    /\ (Columns \subseteq header) => err # "KeyError"
    /\ points # << >> => ResolvedAsClaimed(points[Len(points)])
    /\ Completed => \A id \in DOMAIN Pts : ResolvedAsClaimed(Pts[id])

C1_Witness ==
    /\ Completed
    /\ \E id \in DOMAIN Pts :
          /\ ~HasPartRow(Row(id).PROPERTY)
          /\ Pts[id].payload.Property = Row(id).PROPERTY
          /\ HasPartRow(Row(id).TIME_ASPCT)
          /\ Pts[id].payload.Time = LastPartName(Row(id).TIME_ASPCT)
          /\ Pts[id].payload.Time # Row(id).TIME_ASPCT

\* C2: after two executions that both ran to completion over the same table the
\* collection holds exactly the identifiers 1..nRows, one point each, and every
\* point carries the vector and payload the latest execution made for its row.
C2_TwoRunsOnePointPerId ==
    (Completed /\ run >= 2 /\ completedRuns >= 2) =>
        /\ DOMAIN Pts = 1..nRows
        /\ \A id \in DOMAIN Pts :
              /\ Pts[id].id = id
              /\ Pts[id].vector.run = run
              /\ Pts[id].vector.text[1] = Row(id).LONG_COMMON_NAME
              /\ Pts[id].payload.Name = Row(id).LONG_COMMON_NAME
              /\ Pts[id].payload.Loinc = Row(id).LOINC_NUM

C2_Witness ==
    /\ Completed
    /\ run = 2
    /\ completedRuns = 2
    /\ nRows = MaxRows
    /\ Cardinality(DOMAIN Pts) = MaxRows
    /\ Pts[MaxRows].vector.run = 2

\* C3: a batch whose upsert failed with part of its points stored is either sent
\* again in full with the same identifiers and stored, or all its identifiers are
\* reported as failed; no terminated run has a half-committed, unreported batch.
C3_FailedBatchRetriedOrReported ==
    pc = "exited" =>
        \A k \in 1..Len(upsertLog) :
            (/\ ~upsertLog[k].ok
             /\ upsertLog[k].committed > 0
             /\ upsertLog[k].committed < Cardinality(upsertLog[k].ids)) =>
                \/ \E j \in (k + 1)..Len(upsertLog) :
                      upsertLog[j].ids = upsertLog[k].ids /\ upsertLog[j].ok
                \/ upsertLog[k].ids \subseteq Reported

\* C4: once the embedding service has returned a vector whose length is not 768,
\* the collection holds no point written by this run.
C4_DimensionMismatchWritesNothing ==
    (\E k \in 1..Len(points) : points[k].vector.dim # VectorSize) =>
        \A id \in DOMAIN Pts : Pts[id].vector.run # run

\* C5: a run resumed from offset N skips the first N source records (no point with
\* an identifier up to N is built or sent) and, when it completes, the collection
\* holds the points of all records as after one uninterrupted run.
C5_ResumeSkipsCommitted ==
    run >= 2 =>
        /\ \A k \in 1..Len(points) : points[k].id > resumeOffset
        /\ \A k \in 1..Len(upsertLog) : \A id \in upsertLog[k].ids : id > resumeOffset
        /\ Completed => DOMAIN Pts = 1..nRows

\* C6: the collection-setup step of a run never deletes points of a collection that
\* already exists.
C6_SetupKeepsExistingPoints ==
    [][(pc = "setup" /\ collection.exists) =>
          (collection'.exists /\ collection'.pts = collection.pts)]_vars

\* C7: when a run over a table with every column has terminated, every source
\* record it read has its point in the store (written by this run) or is named in
\* the run's failure report.
C7_NoSilentLoss ==
    (pc = "exited" /\ Columns \subseteq header) =>
        \A k \in 1..rowsRead :
            \/ k \in DOMAIN Pts /\ Pts[k].vector.run = run
            \/ k \in Reported

\* C8: a batch whose upsert failed, and which is not the last batch of the table,
\* is reported by its identifiers and the run goes on: all rows are read and every
\* identifier 1..nRows is sent to the store.
C8_FailedBatchDoesNotAbort ==
    (pc = "exited" /\ \E k \in 1..Len(upsertLog) :
                         ~upsertLog[k].ok /\ nRows \notin upsertLog[k].ids) =>
        /\ \A k \in 1..Len(upsertLog) : ~upsertLog[k].ok => upsertLog[k].ids \subseteq Reported
        /\ rowsRead = nRows
        /\ UNION {upsertLog[k].ids : k \in 1..Len(upsertLog)} = 1..nRows

C10_ExitZeroOnlyWhenCompleted ==
    pc = "exited" => (exitCode = 0 <=> err = "none")

\* C11: a failed embedding call for a record is tried again and, when the attempts
\* are used up, the record's identifier is reported and the run continues with the
\* following records: a failure at a row that is not the last does not end the run.
C11_EmbedFailureReportedRunContinues ==
    (err = "EmbedError" /\ rowsRead < nRows) =>
        /\ rowsRead \in Reported
        /\ pc # "exited"

\* C12: once a cancellation has arrived in the ingestion loop no further row is
\* read, and when the process has exited every point of the open batch is in the
\* store.
C12_CancelFlushesOpenBatch ==
    (pc = "exited" /\ err = "KeyboardInterrupt") =>
        \A k \in 1..Len(points) :
            /\ points[k].id \in DOMAIN Pts
            /\ Pts[points[k].id] = points[k]

\* the point is the one built from the row at source position k
BuiltFromRow(p, k) ==
    /\ p.id = k
    /\ p.vector.text[1] = Row(k).LONG_COMMON_NAME
    /\ p.payload.Name = Row(k).LONG_COMMON_NAME
    /\ p.payload.Loinc = Row(k).LOINC_NUM

\* rows of this run for which a point was built: all rows read, but the last one
\* when the run ended while that row was being processed
RowsBuilt == IF err \in {"KeyError", "EmbedError"} THEN rowsRead - 1 ELSE rowsRead

\* C13: within a run the k-th row read gets identifier k: the open batch holds, in
\* order, the points of the last Len(points) rows a point was built for, so
\* identifiers increase by one and are pairwise distinct, and the vector and the
\* payload under identifier k, in the batch and in the store, both come from row k.
C13_IdentifierIsReadOrder ==
    /\ \A j \in 1..Len(points) : BuiltFromRow(points[j], RowsBuilt - Len(points) + j)
    /\ \A id \in DOMAIN Pts : Pts[id].vector.run = run => BuiltFromRow(Pts[id], id)
    /\ \A k \in 1..Len(upsertLog) : upsertLog[k].ids \subseteq 1..rowsRead

C13_Witness ==
    /\ pc = "loop"
    /\ rowsRead = BatchSize + 2
    /\ Len(points) = 2
    /\ points[1].id = BatchSize + 1
    /\ points[2].id = BatchSize + 2
    /\ BatchSize \in DOMAIN Pts
    /\ Pts[BatchSize].vector.run = run

\* the table was opened and the run ended by itself, not by a cancellation
EndedAfterOpen == pc = "exited" /\ csvOpen /\ err # "KeyboardInterrupt"

\* C14: with a required column absent from the header no embedding call and no
\* upsert is ever made, and a run that got to the table ends on a KeyError.
C14_MissingColumnFailsBeforeEmbedding ==
    ~(Columns \subseteq header) =>
        /\ embedCalls = 0
        /\ upsertLog = << >>
        /\ EndedAfterOpen => err = "KeyError"

\* C15: once creating the collection has raised, main has returned without opening
\* the table: no row is read, no embedding call is made, no point is built and no
\* upsert is sent.
C15_SetupFailureTouchesNothing ==
    err = "CollectionError" =>
        /\ pc = "exited"
        /\ ~csvOpen
        /\ rowsRead = 0
        /\ embedCalls = 0
        /\ points = << >>
        /\ upsertLog = << >>

C15_Witness ==
    /\ err = "CollectionError"
    /\ pc = "exited"
    /\ Columns \subseteq header
    /\ nRows = BatchSize
    /\ Reported = {}
    /\ upsertLog = << >>

SentIds == UNION {upsertLog[k].ids : k \in 1..Len(upsertLog)}

\* C16: the k-th upsert of a run carries the identifiers from 100 (k - 1) + 1 on,
\* without a gap, so the upserts cover disjoint contiguous ranges in increasing
\* order; an upsert is never empty; every upsert but a final flush carries exactly
\* 100 identifiers and the final flush between 1 and 99; between iterations and
\* before the final flush the identifiers sent number 100 * (rows processed \div 100).
C16_UpsertsCoverContiguousRanges ==
    /\ \A k \in 1..Len(upsertLog) :
          LET ids == upsertLog[k].ids
              lo == BatchSize * (k - 1) + 1
              n == Cardinality(ids)
          IN  /\ ids # {}
              /\ ids = lo..(lo + n - 1)
              /\ k < Len(upsertLog) => n = BatchSize
              /\ n # BatchSize =>
                    /\ pc = "exited"
                    /\ rowsRead = nRows
                    /\ n \in 1..(BatchSize - 1)
    /\ \A j, k \in 1..Len(upsertLog) :
          j # k => upsertLog[j].ids \cap upsertLog[k].ids = {}
    /\ pc \in {"loop", "flush"} =>
          /\ Cardinality(SentIds) = BatchSize * (rowsRead \div BatchSize)
          /\ SentIds = 1..(rowsRead - Len(points))

C16_Witness ==
    /\ Completed
    /\ rowsRead > 2 * BatchSize
    /\ Len(upsertLog) = 3
    /\ upsertLog[1].ids = 1..BatchSize
    /\ upsertLog[2].ids = (BatchSize + 1)..(2 * BatchSize)
    /\ upsertLog[3].ids = (2 * BatchSize + 1)..nRows

====
